---- MODULE Spec2Model ----
(***************************************************************************)
(* Model of tadhunt/uspsaddr: the OAuth2 token manager (token.go) and the  *)
(* address validation client (client.go).  Callers are goroutines that     *)
(* call tokenManager.getToken directly or Client.ValidateAddress, which    *)
(* reaches getToken through the request editor registered in NewClient.    *)
(* Time is counted in whole seconds.                                       *)
(***************************************************************************)
EXTENDS Integers, Sequences, FiniteSets, TLC

\* ---------------------------------------------------------------- bounds
NumCallers == 2
MaxCalls == 3
MaxTime == 600
TickStep == 300

MaxEntries == 3

Callers == 1..NumCallers

\* ------------------------------------------------------ program constants
refreshBuffer == 300
defaultExpiresIn == 3600
StatusOK == 200
ZeroTime == -1

\* ------------------------------------------------- pointers and strings
\* A Go pointer is <<>> (nil) or <<v>> (a pointer to v).
Nil == <<>>
Ptr(v) == <<v>>
IsNil(p) == p = <<>>
Deref(p) == p[1]

\* stringValue: dereference a *string, nil gives "".
stringValue(s) == IF IsNil(s) THEN "" ELSE Deref(s)

\* ------------------------------------------------------------- errors
\* An error built by fmt.Errorf: the chain of messages from the outermost
\* wrapper inwards, and the status code formatted into it (0 when none).
NoError == [chain |-> <<>>, status |-> 0]
Errorf(msg) == [chain |-> <<msg>>, status |-> 0]
ErrorfStatus(msg, code) == [chain |-> <<msg>>, status |-> code]
Wrap(msg, err) == [chain |-> <<msg>> \o err.chain, status |-> err.status]
IsError(e) == e # NoError

\* ------------------------------------------------ token endpoint replies
Tokens == {"t1", "t2"}
ExpiresInValues == {-60, 0, 300, 600}

\* A JSON body of a token response: json is FALSE when the body does not
\* decode into tokenResponse; a field that is absent is Nil.
TokenBodies ==
    {[json |-> FALSE, access_token |-> Nil, expires_in |-> Nil]}
    \cup {[json |-> TRUE, access_token |-> a, expires_in |-> Nil] :
              a \in {Nil, Ptr("")}}
    \cup {[json |-> TRUE, access_token |-> Ptr(t), expires_in |-> e] :
              t \in Tokens, e \in {Nil} \cup {Ptr(v) : v \in ExpiresInValues}}

GoodBody == [json |-> TRUE, access_token |-> Ptr("t1"), expires_in |-> Ptr(600)]

\* What httpClient.Do gives back: a transport error, or a status and a body.
TokenReplies ==
    {[neterr |-> TRUE, status |-> 0, body |-> [json |-> FALSE, access_token |-> Nil, expires_in |-> Nil]]}
    \cup {[neterr |-> FALSE, status |-> 500, body |-> GoodBody]}
    \cup {[neterr |-> FALSE, status |-> StatusOK, body |-> b] : b \in TokenBodies}

\* The replies the token endpoint gives in the runs of the address client.
ClientTokenReplies ==
    {[neterr |-> TRUE, status |-> 0, body |-> [json |-> FALSE, access_token |-> Nil, expires_in |-> Nil]],
     [neterr |-> FALSE, status |-> 500, body |-> GoodBody],
     [neterr |-> FALSE, status |-> StatusOK, body |-> GoodBody],
     [neterr |-> FALSE, status |-> StatusOK,
      body |-> [json |-> TRUE, access_token |-> Ptr("t2"), expires_in |-> Nil]]}

\* One reply of the token endpoint for each return of refreshToken:
\* transport failure, error status, undecodable body, empty token, success.
LiveTokenReplies ==
    {[neterr |-> TRUE, status |-> 0, body |-> [json |-> FALSE, access_token |-> Nil, expires_in |-> Nil]],
     [neterr |-> FALSE, status |-> 500, body |-> GoodBody],
     [neterr |-> FALSE, status |-> StatusOK, body |-> [json |-> FALSE, access_token |-> Nil, expires_in |-> Nil]],
     [neterr |-> FALSE, status |-> StatusOK, body |-> [json |-> TRUE, access_token |-> Ptr(""), expires_in |-> Nil]],
     [neterr |-> FALSE, status |-> StatusOK, body |-> GoodBody]}

\* The reply the token endpoint gives in the sequential runs.
SerialTokenReplies == {[neterr |-> FALSE, status |-> StatusOK, body |-> GoodBody]}

NoReply == [neterr |-> FALSE, status |-> 0, body |-> [json |-> FALSE, access_token |-> Nil, expires_in |-> Nil]]

\* json.Decode into tokenResponse: absent fields keep their zero values.
decodeToken(body) ==
    [AccessToken |-> stringValue(body.access_token),
     ExpiresIn |-> IF IsNil(body.expires_in) THEN 0 ELSE Deref(body.expires_in)]

\* ------------------------------------------------ getToken result value
NoResult == [set |-> FALSE, token |-> "", err |-> NoError]
Returned(tok, e) == [set |-> TRUE, token |-> tok, err |-> e]

\* ------------------------------------------------------ address inputs
\* Address.State is a string whose len() and ToUpper matter: a sequence of
\* one-byte characters.  The other fields are compared with "" only.
upperChar(ch) ==
    CASE ch = "c" -> "C"
      [] ch = "a" -> "A"
      [] ch = "l" -> "L"
      [] OTHER -> ch

\* strings.ToUpper
ToUpper(s) == [i \in 1..Len(s) |-> upperChar(s[i])]

States == {<<>>, <<"c">>, <<"c", "a">>, <<"c", "a", "l">>}

Address(street, state, secondary, city) ==
    [StreetAddress |-> street, State |-> state, SecondaryAddress |-> secondary,
     City |-> city, ZIPCode |-> "", Firm |-> "", Urbanization |-> ""]

\* The *Address arguments callers pass: nil, or a pointer to an Address.
AddressInputs ==
    {Nil}
    \cup {Ptr(Address("", <<"c", "a">>, "", ""))}
    \cup {Ptr(Address("1 MAIN ST", st, "APT 2", "")) : st \in States}

NoParams ==
    [StreetAddress |-> "", State |-> <<>>, SecondaryAddress |-> Nil, City |-> Nil,
     ZIPCode |-> Nil, Firm |-> Nil, Urbanization |-> Nil]

\* ------------------------------------------------ address endpoint replies
NoDomesticAddress ==
    [StreetAddress |-> Nil, StreetAddressAbbreviation |-> Nil, SecondaryAddress |-> Nil,
     City |-> Nil, CityAbbreviation |-> Nil, State |-> Nil, ZIPCode |-> Nil,
     ZIPPlus4 |-> Nil, Urbanization |-> Nil]

NoAdditionalInfo ==
    [DeliveryPoint |-> Nil, CarrierRoute |-> Nil, DPVConfirmation |-> Nil, DPVCMRA |-> Nil,
     Business |-> Nil, CentralDeliveryPoint |-> Nil, Vacant |-> Nil]

\* A uspsinternal.AddressResponse the endpoint answers with.
Body32S ==
    [Address |-> Ptr([NoDomesticAddress EXCEPT !.StreetAddress = Ptr("1 MAIN ST"),
                                               !.SecondaryAddress = Ptr("APT 2"),
                                               !.State = Ptr("CA")]),
     Firm |-> Nil,
     AdditionalInfo |-> Ptr([NoAdditionalInfo EXCEPT !.DPVConfirmation = Ptr("S")]),
     Corrections |-> Ptr(<<[Code |-> Ptr("32"), Text |-> Ptr("Default address")],
                           [Code |-> Nil, Text |-> Nil]>>),
     Matches |-> Ptr(<<[Code |-> Ptr("31"), Text |-> Nil]>>),
     Warnings |-> Ptr(<<"w">>)]

\* A uspsinternal.ErrorMessage the endpoint answers with.
ErrorDetailed ==
    [Error |-> Ptr([Code |-> Ptr("400"), Message |-> Ptr("Bad Request"),
                    Errors |-> Ptr(<<[Title |-> Ptr("Invalid state"),
                                      Detail |-> Ptr("State must be 2 letters"),
                                      Source |-> Ptr([Parameter |-> Ptr("state"),
                                                      Example |-> Nil])]>>)])]

\* What GetAddressWithResponse gives back: an error, or a parsed response.
NoAddressReply ==
    [neterr |-> FALSE, StatusCode |-> 0, JSON200 |-> Nil, JSON400 |-> Nil, JSON401 |-> Nil,
     JSON403 |-> Nil, JSON404 |-> Nil, JSON429 |-> Nil, JSON503 |-> Nil]

AddressReplies ==
    {[NoAddressReply EXCEPT !.neterr = TRUE]}
    \cup {[NoAddressReply EXCEPT !.StatusCode = StatusOK, !.JSON200 = Ptr(Body32S)]}
    \cup {[NoAddressReply EXCEPT !.StatusCode = StatusOK]}
    \cup {[NoAddressReply EXCEPT !.StatusCode = 400, !.JSON400 = Ptr(ErrorDetailed)]}
    \cup {[NoAddressReply EXCEPT !.StatusCode = 500]}

\* ValidateAddress's pair of return values: a slice (<<>> is nil) and an error.
NoReturn == [set |-> FALSE, results |-> <<>>, err |-> NoError]
Return(results, e) == [set |-> TRUE, results |-> results, err |-> e]

\* The request on its way to the address endpoint.
NoRequest == [Authorization |-> <<>>, params |-> NoParams]

\* ------------------------------------------ inputs of the sequential runs
\* Addresses that pass the preconditions, with every choice of which
\* optional fields are filled in.
ValidAddresses ==
    {[Address("1 MAIN ST", <<"c", "a">>, secondary, city)
         EXCEPT !.ZIPCode = zip, !.Firm = firm, !.Urbanization = urbanization] :
        secondary \in {"", "APT 2"}, city \in {"", "ANYTOWN"}, zip \in {"", "90210"},
        firm \in {"", "ACME"}, urbanization \in {"", "URB LAS GLADIOLAS"}}

SerialAddressInputs == AddressInputs \cup {Ptr(a) : a \in ValidAddresses}

\* The detailed sub-errors of a uspsinternal.ErrorMessage.
SubErrors ==
    {[Title |-> title, Detail |-> detail, Source |-> source] :
        title \in {Nil, Ptr("Invalid state")},
        detail \in {Nil, Ptr("State must be 2 letters")},
        source \in {Nil, Ptr([Parameter |-> Nil, Example |-> Nil]),
                    Ptr([Parameter |-> Ptr("state"), Example |-> Ptr("CA")])}}

OtherSubError == [Title |-> Ptr("Other"), Detail |-> Ptr("Other detail"), Source |-> Nil]

ErrorLists ==
    {Nil, Ptr(<<>>)}
    \cup {Ptr(<<e>>) : e \in SubErrors}
    \cup {Ptr(<<[Title |-> Nil, Detail |-> Nil, Source |-> Nil], OtherSubError>>),
          Ptr(<<[Title |-> Ptr("Invalid state"), Detail |-> Ptr("State must be 2 letters"),
                 Source |-> Ptr([Parameter |-> Ptr("state"), Example |-> Nil])],
                OtherSubError>>)}

\* The uspsinternal.ErrorMessage bodies the endpoint answers with.
ErrorBodies ==
    {[Error |-> Nil]}
    \cup {[Error |-> Ptr([Code |-> code, Message |-> message, Errors |-> errors])] :
              code \in {Nil, Ptr("401")}, message \in {Nil, Ptr("Unauthorized")},
              errors \in ErrorLists}

\* The statuses whose body the generated client parses as an ErrorMessage.
ErrorStatuses == {400, 401, 403, 404, 429, 503}

\* The parsed response for an error status with an ErrorMessage body: the
\* generated client fills the field of that status.
ErrorReply(status, body) ==
    CASE status = 400 -> [NoAddressReply EXCEPT !.StatusCode = 400, !.JSON400 = Ptr(body)]
      [] status = 401 -> [NoAddressReply EXCEPT !.StatusCode = 401, !.JSON401 = Ptr(body)]
      [] status = 403 -> [NoAddressReply EXCEPT !.StatusCode = 403, !.JSON403 = Ptr(body)]
      [] status = 404 -> [NoAddressReply EXCEPT !.StatusCode = 404, !.JSON404 = Ptr(body)]
      [] status = 429 -> [NoAddressReply EXCEPT !.StatusCode = 429, !.JSON429 = Ptr(body)]
      [] status = 503 -> [NoAddressReply EXCEPT !.StatusCode = 503, !.JSON503 = Ptr(body)]

\* The correction lists of a uspsinternal.AddressResponse.
CorrectionLists ==
    {Nil, Ptr(<<>>),
     Ptr(<<[Code |-> Ptr("32"), Text |-> Ptr("Default address")]>>),
     Ptr(<<[Code |-> Ptr("32"), Text |-> Nil]>>),
     Ptr(<<[Code |-> Ptr("31"), Text |-> Ptr("Single response")]>>),
     Ptr(<<[Code |-> Nil, Text |-> Ptr("Text only")]>>),
     Ptr(<<[Code |-> Nil, Text |-> Nil],
           [Code |-> Ptr("32"), Text |-> Ptr("Default address")],
           [Code |-> Ptr("22"), Text |-> Ptr("Multiple responses")]>>)}

\* The uspsinternal.AddressResponse bodies the endpoint answers with.
ResponseBodies ==
    {[Address |-> address, Firm |-> Nil, AdditionalInfo |-> info,
      Corrections |-> corrections, Matches |-> Nil, Warnings |-> Nil] :
        address \in {Nil} \cup {Ptr([NoDomesticAddress EXCEPT !.SecondaryAddress = secondary]) :
                                    secondary \in {Nil, Ptr(""), Ptr("APT 2")}},
        info \in {Nil} \cup {Ptr([NoAdditionalInfo EXCEPT !.DPVConfirmation = dpv]) :
                                 dpv \in {Nil, Ptr("S"), Ptr("D"), Ptr("N"), Ptr("Y")}},
        corrections \in CorrectionLists}

\* The correction and match entries of the filtering runs: without code and
\* text, with both empty, with a code only, with a text beside an empty
\* code, with both.
FilterEntries ==
    {[Code |-> Nil, Text |-> Nil],
     [Code |-> Ptr(""), Text |-> Ptr("")],
     [Code |-> Ptr("31"), Text |-> Nil],
     [Code |-> Ptr(""), Text |-> Ptr("Text only")],
     [Code |-> Ptr("22"), Text |-> Ptr("Multiple responses")]}

\* The lists of at most MaxEntries such entries.
FilterLists == UNION {[1..n -> FilterEntries] : n \in 0..MaxEntries}

\* The 200 replies of the filtering runs: such a list as corrections, as
\* matches, or as both.
FilterReplies ==
    {[NoAddressReply EXCEPT !.StatusCode = StatusOK,
                            !.JSON200 = Ptr([Body32S EXCEPT !.Corrections = corrections,
                                                            !.Matches = matches])] :
        corrections \in {Nil}, matches \in {Nil}}
    \cup {[NoAddressReply EXCEPT !.StatusCode = StatusOK,
                                 !.JSON200 = Ptr([Body32S EXCEPT !.Corrections = Ptr(l),
                                                                 !.Matches = Nil])] :
             l \in FilterLists}
    \cup {[NoAddressReply EXCEPT !.StatusCode = StatusOK,
                                 !.JSON200 = Ptr([Body32S EXCEPT !.Corrections = Nil,
                                                                 !.Matches = Ptr(l)])] :
             l \in FilterLists}
    \cup {[NoAddressReply EXCEPT !.StatusCode = StatusOK,
                                 !.JSON200 = Ptr([Body32S EXCEPT !.Corrections = Ptr(l),
                                                                 !.Matches = Ptr(l)])] :
             l \in FilterLists}

\* What GetAddressWithResponse gives back in the sequential runs.
SerialAddressReplies ==
    AddressReplies
    \cup {ErrorReply(status, body) : status \in ErrorStatuses,
                                     body \in {ErrorDetailed, [Error |-> Nil]}}
    \cup {ErrorReply(401, body) : body \in ErrorBodies}
    \cup {[NoAddressReply EXCEPT !.StatusCode = status] : status \in {204, 400, 404, 502}}
    \cup {[NoAddressReply EXCEPT !.StatusCode = StatusOK, !.JSON200 = Ptr(body)] :
              body \in ResponseBodies}

VARIABLES
    now,          \* time.Now()
    accessToken,  \* tm.accessToken
    expiresAt,    \* tm.expiresAt
    readers,      \* goroutines holding tm.mu for reading
    writers,      \* goroutines holding tm.mu for writing
    calls,        \* operations started so far
    pc,           \* where each caller is
    op,           \* the operation each caller is running
    token,        \* getToken's local copy of tm.accessToken
    tokResp,      \* refreshToken's reply from the token endpoint
    gtResult,     \* what getToken returned to this caller
    tokPosts,     \* token-endpoint POSTs this caller issued in this call
    addr,         \* ValidateAddress's address argument
    params,       \* the GetAddressParams ValidateAddress built
    req,          \* the address request the transport holds
    addrSends,    \* address-endpoint requests this caller sent in this call
    reply,        \* what GetAddressWithResponse gave back to this caller
    result,       \* what ValidateAddress returned to this caller
    fast,         \* what the fast-path check found: none, valid, empty, expired
    dhit,         \* the double check found the cache valid
    raced,        \* another caller's POST was issued while this one was past the fast path
    committed,    \* the last pair <<accessToken, expiresAt>> stored completely
    cycleGood,    \* refreshes of this expiry cycle that stored a valid token
    failed,       \* a refresh failed and no token request has succeeded since
    config,       \* the Config handed to NewClient
    client        \* what NewClient returned

tmVars == <<accessToken, expiresAt, readers, writers>>
callVars == <<pc, op, token, tokResp, gtResult, tokPosts>>
vaVars == <<addr, params, req, addrSends, reply, result>>
ghostVars == <<fast, dhit, raced, committed, cycleGood, failed>>
ctorVars == <<config, client>>
vars == <<now, calls, tmVars, callVars, vaVars, ghostVars, ctorVars>>

\* ---------------------------------------------------- what the claims see
\* The state of the cache at time t, as the data model defines validity.
CacheState(tok, exp, t) ==
    IF tok = "" THEN "empty" ELSE IF t < exp THEN "valid" ELSE "expired"

InRead == {c \in Callers : pc[c] \in {"fastHit", "fastMiss"}}
InRefresh == {c \in Callers : pc[c] \in {"await", "storeExpiry", "unlock"}}

\* ------------------------------------------------------------ sync.RWMutex
\* RLock proceeds when no writer holds the lock; Lock when nobody holds it.
canRLockIgnoringWriter == TRUE
canRLock == writers = {}
canLockIgnoringWriter == readers = {}
canLock == writers = {} /\ readers = {}

\* ----------------------------------------------------------- token manager
\* time.Now().Before(tm.expiresAt) behind a non-empty token: the fast path.
tokenValidAfter(tok, exp, t) == tok # "" /\ t > exp
tokenValidNotAfter(tok, exp, t) == tok # "" /\ t <= exp
tokenValid(tok, exp, t) == tok # "" /\ t < exp

\* the same test again, under the exclusive lock.
doubleCheckSkipped(tok, exp, t) == FALSE
doubleCheck(tok, exp, t) == tok # "" /\ t < exp

\* Which return of refreshToken a reply leads to.
refreshOutcomeAnyStatus(r) ==
    IF r.neterr THEN "neterr"
    ELSE IF ~r.body.json THEN "decode"
    ELSE IF decodeToken(r.body).AccessToken = "" THEN "empty"
    ELSE "ok"

refreshOutcomeNoEmptyCheck(r) ==
    IF r.neterr THEN "neterr"
    ELSE IF r.status # StatusOK THEN "status"
    ELSE IF ~r.body.json THEN "decode"
    ELSE "ok"

refreshOutcome(r) ==
    IF r.neterr THEN "neterr"
    ELSE IF r.status # StatusOK THEN "status"
    ELSE IF ~r.body.json THEN "decode"
    ELSE IF decodeToken(r.body).AccessToken = "" THEN "empty"
    ELSE "ok"

refreshError(r) ==
    CASE refreshOutcome(r) = "neterr" -> Wrap("token request failed", Errorf("transport"))
      [] refreshOutcome(r) = "status" -> ErrorfStatus("token request failed with status", r.status)
      [] refreshOutcome(r) = "decode" -> Wrap("failed to decode token response", Errorf("json"))
      [] refreshOutcome(r) = "empty" -> Errorf("received empty access token")
      [] OTHER -> NoError

\* expiresAt as refreshToken computes it from ExpiresIn (seconds) at time t.
\* time.Duration(ExpiresIn) * time.Second stays within int64 for every
\* ExpiresIn of ExpiresInValues, so the product is the plain one.
expiryOfNoDefault(t, ExpiresIn) == t + (ExpiresIn - refreshBuffer)

expiryOfNoBuffer(t, ExpiresIn) ==
    LET expiresIn == IF ExpiresIn = 0 THEN defaultExpiresIn ELSE ExpiresIn
    IN t + expiresIn

expiryOf(t, ExpiresIn) ==
    LET expiresIn == IF ExpiresIn = 0 THEN defaultExpiresIn ELSE ExpiresIn
    IN t + (expiresIn - refreshBuffer)

\* Where a caller goes when getToken returns.
afterGetToken(c) == IF op[c] = "getToken" THEN "done" ELSE "editor"
afterOp(c) == IF op[c] = "getToken" THEN "none" ELSE op[c]

\* A caller starts a direct getToken call.
CallGetToken(c) ==
    /\ pc[c] \in {"idle", "done"}
    /\ calls < MaxCalls
    /\ calls' = calls + 1
    /\ pc' = [pc EXCEPT ![c] = "getToken"]
    /\ op' = [op EXCEPT ![c] = "getToken"]
    /\ token' = [token EXCEPT ![c] = ""]
    /\ gtResult' = [gtResult EXCEPT ![c] = NoResult]
    /\ tokPosts' = [tokPosts EXCEPT ![c] = 0]
    /\ fast' = [fast EXCEPT ![c] = "none"]
    /\ dhit' = [dhit EXCEPT ![c] = FALSE]
    /\ raced' = [raced EXCEPT ![c] = FALSE]
    /\ addr' = [addr EXCEPT ![c] = Nil]
    /\ params' = [params EXCEPT ![c] = NoParams]
    /\ req' = [req EXCEPT ![c] = NoRequest]
    /\ addrSends' = [addrSends EXCEPT ![c] = 0]
    /\ reply' = [reply EXCEPT ![c] = NoAddressReply]
    /\ result' = [result EXCEPT ![c] = NoReturn]
    /\ UNCHANGED <<ctorVars, now, tmVars, tokResp, committed, cycleGood, failed>>

\* getToken: RLock and the fast-path check.
getToken(c) ==
    /\ pc[c] = "getToken"
    /\ canRLock
    /\ readers' = readers \cup {c}
    /\ IF tokenValid(accessToken, expiresAt, now)
       THEN /\ token' = [token EXCEPT ![c] = accessToken]
            /\ pc' = [pc EXCEPT ![c] = "fastHit"]
       ELSE /\ token' = token
            /\ pc' = [pc EXCEPT ![c] = "fastMiss"]
    /\ fast' = [fast EXCEPT ![c] = CacheState(accessToken, expiresAt, now)]
    /\ UNCHANGED <<ctorVars, vaVars, now, calls, accessToken, expiresAt, writers, op, tokResp,
                   gtResult, tokPosts, dhit, raced, committed, cycleGood, failed>>

\* getToken: RUnlock, then return the token or go on to refreshToken.
getTokenRUnlock(c) ==
    /\ pc[c] \in {"fastHit", "fastMiss"}
    /\ readers' = readers \ {c}
    /\ token' = [token EXCEPT ![c] = ""]
    /\ IF pc[c] = "fastHit"
       THEN /\ gtResult' = [gtResult EXCEPT ![c] = Returned(token[c], NoError)]
            /\ pc' = [pc EXCEPT ![c] = afterGetToken(c)]
            /\ op' = [op EXCEPT ![c] = afterOp(c)]
       ELSE /\ gtResult' = gtResult
            /\ pc' = [pc EXCEPT ![c] = "refreshToken"]
            /\ op' = op
    /\ UNCHANGED <<ctorVars, vaVars, now, calls, accessToken, expiresAt, writers,
                   tokResp, tokPosts, ghostVars>>

\* refreshToken: Lock, the double check, and the POST when it fails.
refreshToken(c) ==
    /\ pc[c] = "refreshToken"
    /\ canLock
    /\ writers' = writers \cup {c}
    /\ IF doubleCheck(accessToken, expiresAt, now)
       THEN /\ gtResult' = [gtResult EXCEPT ![c] = Returned(accessToken, NoError)]
            /\ pc' = [pc EXCEPT ![c] = "unlock"]
            /\ UNCHANGED <<tokPosts, raced>>
       ELSE /\ tokPosts' = [tokPosts EXCEPT ![c] = @ + 1]
            /\ pc' = [pc EXCEPT ![c] = "await"]
            /\ raced' = [d \in Callers |->
                           IF d # c /\ pc[d] \in {"fastMiss", "refreshToken"}
                           THEN TRUE ELSE raced[d]]
            /\ gtResult' = gtResult
    /\ dhit' = [dhit EXCEPT ![c] = CacheState(accessToken, expiresAt, now) = "valid"]
    /\ UNCHANGED <<ctorVars, vaVars, now, calls, accessToken, expiresAt, readers, op, token,
                   tokResp, fast, committed, cycleGood, failed>>

\* tokenReply with one more POST after a failed one.
tokenReplyRetry(c, r) ==
    /\ pc[c] = "await"
    /\ tokResp' = [tokResp EXCEPT ![c] = r]
    /\ IF refreshOutcome(r) = "ok"
       THEN /\ accessToken' = decodeToken(r.body).AccessToken
            /\ pc' = [pc EXCEPT ![c] = "storeExpiry"]
            /\ UNCHANGED <<gtResult, tokPosts>>
            /\ failed' = FALSE
       ELSE /\ accessToken' = accessToken
            /\ IF tokPosts[c] < 2
               THEN /\ tokPosts' = [tokPosts EXCEPT ![c] = @ + 1]
                    /\ UNCHANGED <<pc, gtResult>>
               ELSE /\ pc' = [pc EXCEPT ![c] = "unlock"]
                    /\ gtResult' = [gtResult EXCEPT ![c] = Returned("", refreshError(r))]
                    /\ tokPosts' = tokPosts
            /\ failed' = TRUE
    /\ UNCHANGED <<ctorVars, vaVars, now, calls, expiresAt, readers, writers, op, token,
                   fast, dhit, raced, committed, cycleGood>>

\* tokenReply keeping the old token for another five minutes after a failure.
tokenReplyBacksOff(c, r) ==
    /\ pc[c] = "await"
    /\ tokResp' = [tokResp EXCEPT ![c] = r]
    /\ IF refreshOutcome(r) = "ok"
       THEN /\ accessToken' = decodeToken(r.body).AccessToken
            /\ expiresAt' = expiresAt
            /\ pc' = [pc EXCEPT ![c] = "storeExpiry"]
            /\ gtResult' = gtResult
            /\ failed' = FALSE
       ELSE /\ accessToken' = accessToken
            /\ expiresAt' = now + refreshBuffer
            /\ pc' = [pc EXCEPT ![c] = "unlock"]
            /\ gtResult' = [gtResult EXCEPT ![c] = Returned("", refreshError(r))]
            /\ failed' = TRUE
    /\ UNCHANGED <<ctorVars, vaVars, now, calls, readers, writers, op, token,
                   tokPosts, fast, dhit, raced, committed, cycleGood>>

\* refreshToken: the reply arrives; every failure returns, success stores
\* the token.
tokenReply(c, r) ==
    /\ pc[c] = "await"
    /\ tokResp' = [tokResp EXCEPT ![c] = r]
    /\ IF refreshOutcome(r) = "ok"
       THEN /\ accessToken' = decodeToken(r.body).AccessToken
            /\ pc' = [pc EXCEPT ![c] = "storeExpiry"]
            /\ gtResult' = gtResult
            /\ failed' = FALSE
       ELSE /\ accessToken' = accessToken
            /\ pc' = [pc EXCEPT ![c] = "unlock"]
            /\ gtResult' = [gtResult EXCEPT ![c] = Returned("", refreshError(r))]
            /\ failed' = TRUE
    /\ UNCHANGED <<ctorVars, vaVars, now, calls, expiresAt, readers, writers, op, token,
                   tokPosts, fast, dhit, raced, committed, cycleGood>>

\* refreshToken: compute and store the expiry, return the stored token.
storeExpiry(c) ==
    /\ pc[c] = "storeExpiry"
    /\ expiresAt' = expiryOf(now, decodeToken(tokResp[c].body).ExpiresIn)
    /\ gtResult' = [gtResult EXCEPT ![c] = Returned(accessToken, NoError)]
    /\ pc' = [pc EXCEPT ![c] = "unlock"]
    /\ committed' = <<accessToken, expiresAt'>>
    /\ cycleGood' = IF CacheState(accessToken, expiresAt', now) = "valid"
                    THEN cycleGood + 1 ELSE cycleGood
    /\ UNCHANGED <<ctorVars, vaVars, now, calls, accessToken, readers, writers, op, token,
                   tokResp, tokPosts, fast, dhit, raced, failed>>

\* the return of refreshToken with the deferred Unlock left out.
refreshUnlockKeepsLock(c) ==
    /\ pc[c] = "unlock"
    /\ writers' = writers
    /\ tokResp' = [tokResp EXCEPT ![c] = NoReply]
    /\ pc' = [pc EXCEPT ![c] = afterGetToken(c)]
    /\ op' = [op EXCEPT ![c] = afterOp(c)]
    /\ raced' = [raced EXCEPT ![c] = FALSE]
    /\ UNCHANGED <<ctorVars, vaVars, now, calls, accessToken, expiresAt, readers, token,
                   gtResult, tokPosts, fast, dhit, committed, cycleGood, failed>>

\* refreshToken: the deferred Unlock, and the return.
refreshUnlock(c) ==
    /\ pc[c] = "unlock"
    /\ writers' = writers \ {c}
    /\ tokResp' = [tokResp EXCEPT ![c] = NoReply]
    /\ pc' = [pc EXCEPT ![c] = afterGetToken(c)]
    /\ op' = [op EXCEPT ![c] = afterOp(c)]
    /\ raced' = [raced EXCEPT ![c] = FALSE]
    /\ UNCHANGED <<ctorVars, vaVars, now, calls, accessToken, expiresAt, readers, token,
                   gtResult, tokPosts, fast, dhit, committed, cycleGood, failed>>

\* ------------------------------------------------------- response translator
generateUserMessageTextOnly(code, text, dpvConfirmation, hasSecondaryAddress) == text

generateUserMessageAnySecondary(code, text, dpvConfirmation, hasSecondaryAddress) ==
    IF code = "32" /\ dpvConfirmation = "S"
    THEN "USPS does not have enough data to validate the secondary address. Please double check what you entered."
    ELSE text

\* generateUserMessage
generateUserMessage(code, text, dpvConfirmation, hasSecondaryAddress) ==
    IF code = "32"
    THEN IF dpvConfirmation = "D" THEN text
         ELSE IF dpvConfirmation = "S" /\ hasSecondaryAddress
              THEN "USPS does not have enough data to validate the secondary address. Please double check what you entered."
              ELSE text
    ELSE text

\* convertAddress
convertAddress(a, firm) ==
    [Firm |-> stringValue(firm),
     StreetAddress |-> stringValue(a.StreetAddress),
     StreetAddressAbbreviation |-> stringValue(a.StreetAddressAbbreviation),
     SecondaryAddress |-> stringValue(a.SecondaryAddress),
     City |-> stringValue(a.City),
     CityAbbreviation |-> stringValue(a.CityAbbreviation),
     State |-> stringValue(a.State),
     ZIPCode |-> stringValue(a.ZIPCode),
     ZIPPlus4 |-> stringValue(a.ZIPPlus4),
     Urbanization |-> stringValue(a.Urbanization)]

\* The zero Address{}.
ZeroAddress == convertAddress(NoDomesticAddress, Nil)

\* convertAdditionalInfo
convertAdditionalInfo(info) ==
    [DeliveryPoint |-> stringValue(info.DeliveryPoint),
     CarrierRoute |-> stringValue(info.CarrierRoute),
     DPVConfirmation |-> stringValue(info.DPVConfirmation),
     DPVCMRA |-> stringValue(info.DPVCMRA),
     Business |-> stringValue(info.Business),
     CentralDeliveryPoint |-> stringValue(info.CentralDeliveryPoint),
     Vacant |-> stringValue(info.Vacant)]

keepEntryBoth(e) == stringValue(e.Code) # "" /\ stringValue(e.Text) # ""

\* The entries convertResponse keeps: code or text non-empty.
keepEntry(e) == stringValue(e.Code) # "" \/ stringValue(e.Text) # ""

\* convertResponse
convertResponse(resp) ==
    LET dpvConfirmation ==
            IF ~IsNil(resp.AdditionalInfo)
            THEN stringValue(Deref(resp.AdditionalInfo).DPVConfirmation)
            ELSE ""
        hasSecondaryAddress ==
            /\ ~IsNil(resp.Address)
            /\ ~IsNil(Deref(resp.Address).SecondaryAddress)
            /\ Deref(Deref(resp.Address).SecondaryAddress) # ""
        corrections ==
            IF IsNil(resp.Corrections) THEN <<>>
            ELSE LET kept == SelectSeq(Deref(resp.Corrections), keepEntry)
                 IN [i \in 1..Len(kept) |->
                       [Code |-> stringValue(kept[i].Code),
                        Text |-> stringValue(kept[i].Text),
                        UserMessage |-> generateUserMessage(stringValue(kept[i].Code),
                                            stringValue(kept[i].Text),
                                            dpvConfirmation, hasSecondaryAddress)]]
        matches ==
            IF IsNil(resp.Matches) THEN <<>>
            ELSE LET kept == SelectSeq(Deref(resp.Matches), keepEntry)
                 IN [i \in 1..Len(kept) |->
                       [Code |-> stringValue(kept[i].Code),
                        Text |-> stringValue(kept[i].Text)]]
    IN [Address |-> IF IsNil(resp.Address) THEN ZeroAddress
                    ELSE convertAddress(Deref(resp.Address), resp.Firm),
        Corrections |-> corrections,
        Matches |-> matches,
        Warnings |-> IF IsNil(resp.Warnings) THEN <<>> ELSE Deref(resp.Warnings),
        AdditionalInfo |-> IF IsNil(resp.AdditionalInfo) THEN Nil
                           ELSE Ptr(convertAdditionalInfo(Deref(resp.AdditionalInfo)))]

\* convertError taking the last detailed error instead of the first.
convertErrorLastSubError(errResp) ==
    IF IsNil(errResp) \/ IsNil(Deref(errResp).Error)
    THEN [Status |-> "", Code |-> "", Title |-> "Unknown error", Detail |-> "", Source |-> Nil]
    ELSE LET e == Deref(Deref(errResp).Error)
             hasErrors == ~IsNil(e.Errors) /\ Len(Deref(e.Errors)) > 0
             lastErr == Deref(e.Errors)[Len(Deref(e.Errors))]
         IN [Status |-> stringValue(e.Code),
             Code |-> stringValue(e.Code),
             Detail |-> IF hasErrors /\ ~IsNil(lastErr.Detail) THEN Deref(lastErr.Detail)
                        ELSE stringValue(e.Message),
             Title |-> IF hasErrors /\ ~IsNil(lastErr.Title) THEN Deref(lastErr.Title)
                       ELSE stringValue(e.Message),
             Source |-> IF hasErrors /\ ~IsNil(lastErr.Source)
                        THEN Ptr([Parameter |-> stringValue(Deref(lastErr.Source).Parameter),
                                  Example |-> stringValue(Deref(lastErr.Source).Example)])
                        ELSE Nil]

\* convertError: the *Error for a structured error body.
convertError(errResp) ==
    IF IsNil(errResp) \/ IsNil(Deref(errResp).Error)
    THEN [Status |-> "", Code |-> "", Title |-> "Unknown error", Detail |-> "", Source |-> Nil]
    ELSE LET e == Deref(Deref(errResp).Error)
             hasErrors == ~IsNil(e.Errors) /\ Len(Deref(e.Errors)) > 0
             firstErr == Deref(e.Errors)[1]
         IN [Status |-> stringValue(e.Code),
             Code |-> stringValue(e.Code),
             Detail |-> IF hasErrors /\ ~IsNil(firstErr.Detail) THEN Deref(firstErr.Detail)
                        ELSE stringValue(e.Message),
             Title |-> IF hasErrors /\ ~IsNil(firstErr.Title) THEN Deref(firstErr.Title)
                       ELSE stringValue(e.Message),
             Source |-> IF hasErrors /\ ~IsNil(firstErr.Source)
                        THEN Ptr([Parameter |-> stringValue(Deref(firstErr.Source).Parameter),
                                  Example |-> stringValue(Deref(firstErr.Source).Example)])
                        ELSE Nil]

\* ---------------------------------------------------------- address client
\* The preconditions of ValidateAddress: the error it returns before any
\* request, NoError when the address passes.
checkAddressNoLength(a) ==
    IF IsNil(a) THEN Errorf("address cannot be nil")
    ELSE IF Deref(a).StreetAddress = "" THEN Errorf("street address is required")
    ELSE IF Deref(a).State = <<>> THEN Errorf("2 letter state abbreviation is required")
    ELSE NoError

checkAddress(a) ==
    IF IsNil(a) THEN Errorf("address cannot be nil")
    ELSE IF Deref(a).StreetAddress = "" THEN Errorf("street address is required")
    ELSE IF Deref(a).State = <<>> THEN Errorf("2 letter state abbreviation is required")
    ELSE IF Len(Deref(a).State) # 2 THEN Errorf("2 letter state abbreviation is required")
    ELSE NoError

optionalAlways(field) == Ptr(field)

\* An optional parameter: a pointer to the field when it is non-empty.
optional(field) == IF field # "" THEN Ptr(field) ELSE Nil

\* The GetAddressParams ValidateAddress builds.
buildParams(a) ==
    [StreetAddress |-> a.StreetAddress,
     State |-> ToUpper(a.State),
     SecondaryAddress |-> optional(a.SecondaryAddress),
     City |-> optional(a.City),
     ZIPCode |-> optional(a.ZIPCode),
     Firm |-> optional(a.Firm),
     Urbanization |-> optional(a.Urbanization)]

\* The Authorization header the request editor sets from getToken's token.
editorHeaderFromCache(c) == <<"Bearer", accessToken>>
editorHeader(c) == <<"Bearer", gtResult[c].token>>

\* What ValidateAddress returns for what GetAddressWithResponse gave back.
handleReplyNoAppend(r) ==
    IF r.neterr THEN Return(<<>>, Wrap("USPS API request failed", Errorf("transport")))
    ELSE IF r.StatusCode # StatusOK
    THEN Return(<<>>, ErrorfStatus("unexpected status code", r.StatusCode))
    ELSE IF IsNil(r.JSON200) THEN Return(<<>>, Errorf("unexpected empty response"))
    ELSE Return(<<>>, NoError)

handleReplyOnly400(r) ==
    IF r.neterr THEN Return(<<>>, Wrap("USPS API request failed", Errorf("transport")))
    ELSE IF r.StatusCode # StatusOK
    THEN IF ~IsNil(r.JSON400) THEN Return(<<>>, convertError(r.JSON400))
         ELSE Return(<<>>, ErrorfStatus("unexpected status code", r.StatusCode))
    ELSE IF IsNil(r.JSON200) THEN Return(<<>>, Errorf("unexpected empty response"))
    ELSE Return(<<convertResponse(Deref(r.JSON200))>>, NoError)

handleReplyNoEmptyCheck(r) ==
    IF r.neterr THEN Return(<<>>, Wrap("USPS API request failed", Errorf("transport")))
    ELSE IF r.StatusCode # StatusOK
    THEN IF ~IsNil(r.JSON400) THEN Return(<<>>, convertError(r.JSON400))
         ELSE IF ~IsNil(r.JSON401) THEN Return(<<>>, convertError(r.JSON401))
         ELSE IF ~IsNil(r.JSON403) THEN Return(<<>>, convertError(r.JSON403))
         ELSE IF ~IsNil(r.JSON404) THEN Return(<<>>, convertError(r.JSON404))
         ELSE IF ~IsNil(r.JSON429) THEN Return(<<>>, convertError(r.JSON429))
         ELSE IF ~IsNil(r.JSON503) THEN Return(<<>>, convertError(r.JSON503))
         ELSE Return(<<>>, ErrorfStatus("unexpected status code", r.StatusCode))
    ELSE IF IsNil(r.JSON200) THEN Return(<<>>, NoError)
    ELSE Return(<<convertResponse(Deref(r.JSON200))>>, NoError)

handleReply(r) ==
    IF r.neterr THEN Return(<<>>, Wrap("USPS API request failed", Errorf("transport")))
    ELSE IF r.StatusCode # StatusOK
    THEN IF ~IsNil(r.JSON400) THEN Return(<<>>, convertError(r.JSON400))
         ELSE IF ~IsNil(r.JSON401) THEN Return(<<>>, convertError(r.JSON401))
         ELSE IF ~IsNil(r.JSON403) THEN Return(<<>>, convertError(r.JSON403))
         ELSE IF ~IsNil(r.JSON404) THEN Return(<<>>, convertError(r.JSON404))
         ELSE IF ~IsNil(r.JSON429) THEN Return(<<>>, convertError(r.JSON429))
         ELSE IF ~IsNil(r.JSON503) THEN Return(<<>>, convertError(r.JSON503))
         ELSE Return(<<>>, ErrorfStatus("unexpected status code", r.StatusCode))
    ELSE IF IsNil(r.JSON200) THEN Return(<<>>, Errorf("unexpected empty response"))
    ELSE Return(<<convertResponse(Deref(r.JSON200))>>, NoError)

\* ValidateAddress up to the call of GetAddressWithResponse: the
\* preconditions and the parameters.
ValidateAddress(c, a) ==
    /\ pc[c] \in {"idle", "done"}
    /\ calls < MaxCalls
    /\ calls' = calls + 1
    /\ addr' = [addr EXCEPT ![c] = a]
    /\ token' = [token EXCEPT ![c] = ""]
    /\ gtResult' = [gtResult EXCEPT ![c] = NoResult]
    /\ tokPosts' = [tokPosts EXCEPT ![c] = 0]
    /\ req' = [req EXCEPT ![c] = NoRequest]
    /\ addrSends' = [addrSends EXCEPT ![c] = 0]
    /\ reply' = [reply EXCEPT ![c] = NoAddressReply]
    /\ fast' = [fast EXCEPT ![c] = "none"]
    /\ dhit' = [dhit EXCEPT ![c] = FALSE]
    /\ raced' = [raced EXCEPT ![c] = FALSE]
    /\ IF IsError(checkAddress(a))
       THEN /\ result' = [result EXCEPT ![c] = Return(<<>>, checkAddress(a))]
            /\ params' = [params EXCEPT ![c] = NoParams]
            /\ op' = [op EXCEPT ![c] = "none"]
            /\ pc' = [pc EXCEPT ![c] = "done"]
       ELSE /\ result' = [result EXCEPT ![c] = NoReturn]
            /\ params' = [params EXCEPT ![c] = buildParams(Deref(a))]
            /\ op' = [op EXCEPT ![c] = "ValidateAddress"]
            /\ pc' = [pc EXCEPT ![c] = "getToken"]
    /\ UNCHANGED <<ctorVars, now, tmVars, tokResp, committed, cycleGood, failed>>

\* The request editor NewClient registers, after its getToken call returned:
\* an error ends ValidateAddress, a token becomes the bearer credential.
requestEditor(c) ==
    /\ pc[c] = "editor"
    /\ IF IsError(gtResult[c].err)
       THEN /\ result' = [result EXCEPT ![c] =
                   Return(<<>>, Wrap("USPS API request failed",
                                     Wrap("failed to get access token", gtResult[c].err)))]
            /\ req' = req
            /\ params' = [params EXCEPT ![c] = NoParams]
            /\ gtResult' = [gtResult EXCEPT ![c] = NoResult]
            /\ op' = [op EXCEPT ![c] = "none"]
            /\ pc' = [pc EXCEPT ![c] = "done"]
       ELSE /\ result' = result
            /\ req' = [req EXCEPT ![c] = [Authorization |-> editorHeader(c),
                                          params |-> params[c]]]
            /\ UNCHANGED <<params, gtResult, op>>
            /\ pc' = [pc EXCEPT ![c] = "send"]
    /\ fast' = [fast EXCEPT ![c] = "none"]
    /\ dhit' = [dhit EXCEPT ![c] = FALSE]
    /\ UNCHANGED <<ctorVars, now, calls, tmVars, token, tokResp, tokPosts,
                   addr, addrSends, reply, raced, committed, cycleGood, failed>>

\* The transport sends the edited request to the address endpoint.
sendRequest(c) ==
    /\ pc[c] = "send"
    /\ addrSends' = [addrSends EXCEPT ![c] = @ + 1]
    /\ pc' = [pc EXCEPT ![c] = "awaitAddress"]
    /\ UNCHANGED <<ctorVars, now, calls, tmVars, op, token, tokResp, gtResult, tokPosts,
                   addr, params, req, reply, result, ghostVars>>

\* ValidateAddress from the return of GetAddressWithResponse to its own.
addressReply(c, r) ==
    /\ pc[c] = "awaitAddress"
    /\ reply' = [reply EXCEPT ![c] = r]
    /\ result' = [result EXCEPT ![c] = handleReply(r)]
    /\ params' = [params EXCEPT ![c] = NoParams]
    /\ req' = [req EXCEPT ![c] = NoRequest]
    /\ gtResult' = [gtResult EXCEPT ![c] = NoResult]
    /\ op' = [op EXCEPT ![c] = "none"]
    /\ pc' = [pc EXCEPT ![c] = "done"]
    /\ UNCHANGED <<ctorVars, now, calls, tmVars, token, tokResp, tokPosts,
                   addr, addrSends, ghostVars>>

\* ------------------------------------------------------------ construction
\* A Config value, and the Configs callers hand to NewClient.
Config(id, secret, server, tokenURL) ==
    [ClientID |-> id, ClientSecret |-> secret, ServerURL |-> server, TokenURL |-> tokenURL]

Configs ==
    {Config(id, secret, server, tokenURL) :
        id \in {"", "id", "id2"}, secret \in {"", "secret", "secret2"},
        server \in {"", "https://apis-tem.usps.com/addresses/v3", "http://localhost/addresses"},
        tokenURL \in {"", "https://apis-tem.usps.com/oauth2/v3/token", "http://localhost/token"}}

\* The Config of the client the callers share.
SharedConfig == Config("id", "secret", "", "")

\* The *Error Config.Validate returns.
ConfigError(detail) ==
    [Status |-> "", Code |-> "", Title |-> "Invalid configuration", Detail |-> detail,
     Source |-> Nil]

\* Config.Validate
ValidateClientIDOnly(c) ==
    IF c.ClientID = "" THEN ConfigError("ClientID is required") ELSE NoError

Validate(c) ==
    IF c.ClientID = "" THEN ConfigError("ClientID is required")
    ELSE IF c.ClientSecret = "" THEN ConfigError("ClientSecret is required")
    ELSE NoError

\* Config.setDefaults
setDefaults(c) ==
    [c EXCEPT !.ServerURL = IF @ = "" THEN "https://apis.usps.com/addresses/v3" ELSE @,
              !.TokenURL = IF @ = "" THEN "https://apis.usps.com/oauth2/v3/token" ELSE @]

\* newTokenManager: the fields set at construction; accessToken and expiresAt
\* start at their zero values.
newTokenManager(clientID, clientSecret, tokenURL) ==
    [clientID |-> clientID, clientSecret |-> clientSecret, tokenURL |-> tokenURL,
     refreshBuffer |-> refreshBuffer]

\* uspsinternal.NewClientWithResponses: keeps the server URL and the request
\* editor, and returns no error.
NewClientWithResponses(server) == NoError

\* NewClient's pair of return values.
NotConstructed == [set |-> FALSE, client |-> Nil, err |-> NoError]

NewClient(cfg) ==
    IF IsError(Validate(cfg))
    THEN [set |-> TRUE, client |-> Nil, err |-> Validate(cfg)]
    ELSE LET defaulted == setDefaults(cfg)
             tm == newTokenManager(defaulted.ClientID, defaulted.ClientSecret,
                                   defaulted.TokenURL)
         IN IF IsError(NewClientWithResponses(defaulted.ServerURL))
            THEN [set |-> TRUE, client |-> Nil,
                  err |-> Wrap("failed to create USPS client",
                               NewClientWithResponses(defaulted.ServerURL))]
            ELSE [set |-> TRUE,
                  client |-> Ptr([config |-> defaulted, tokenManager |-> tm]),
                  err |-> NoError]

\* A caller constructs a client from its Config.
CallNewClient ==
    /\ ~client.set
    /\ client' = NewClient(config)
    /\ UNCHANGED <<config, now, calls, tmVars, callVars, vaVars, ghostVars>>

\* The clock advances.  An expiry cycle ends when the stored pair stops
\* being valid.
Tick ==
    /\ now + TickStep <= MaxTime
    /\ now' = now + TickStep
    /\ IF /\ CacheState(committed[1], committed[2], now) = "valid"
          /\ CacheState(committed[1], committed[2], now') # "valid"
       THEN /\ cycleGood' = 0
            /\ raced' = [d \in Callers |-> FALSE]
       ELSE UNCHANGED <<cycleGood, raced>>
    /\ UNCHANGED <<ctorVars, vaVars, calls, tmVars, callVars, fast, dhit, committed, failed>>

\* The token manager and the callers right after newTokenManager.
ManagerInit ==
    /\ now = 0
    /\ accessToken = ""
    /\ expiresAt = ZeroTime
    /\ readers = {}
    /\ writers = {}
    /\ calls = 0
    /\ pc = [c \in Callers |-> "idle"]
    /\ op = [c \in Callers |-> "none"]
    /\ token = [c \in Callers |-> ""]
    /\ tokResp = [c \in Callers |-> NoReply]
    /\ gtResult = [c \in Callers |-> NoResult]
    /\ tokPosts = [c \in Callers |-> 0]
    /\ fast = [c \in Callers |-> "none"]
    /\ dhit = [c \in Callers |-> FALSE]
    /\ raced = [c \in Callers |-> FALSE]
    /\ committed = <<"", ZeroTime>>
    /\ cycleGood = 0
    /\ addr = [c \in Callers |-> Nil]
    /\ params = [c \in Callers |-> NoParams]
    /\ req = [c \in Callers |-> NoRequest]
    /\ addrSends = [c \in Callers |-> 0]
    /\ reply = [c \in Callers |-> NoAddressReply]
    /\ result = [c \in Callers |-> NoReturn]
    /\ failed = FALSE

\* The state after NewClient(SharedConfig): the callers share its client.
Init ==
    /\ ManagerInit
    /\ config = SharedConfig
    /\ client = NewClient(SharedConfig)

\* The state before NewClient, with the Config the caller built.
ConstructInit ==
    /\ ManagerInit
    /\ config \in Configs
    /\ client = NotConstructed

\* ------------------------------------------------------------------ claims

\* C1 as stated: of the callers that raced past the fast-path check in one
\* expiry cycle, at most one issues a POST: a caller that was past the check
\* when another caller's POST of the cycle went out issues none.
C1_OnePostPerCycle ==
    \A c \in Callers : raced[c] => tokPosts[c] = 0

\* C1 amended: the POSTs of one expiry cycle are issued one at a time, each
\* with the cache not valid, and at most one POST of the cycle ends by
\* caching a valid token.
C1_OneGoodRefreshPerCycle ==
    /\ cycleGood <= 1
    /\ Cardinality({c \in Callers : pc[c] = "await"}) <= 1
    /\ \A c \in Callers :
          pc[c] = "await" => CacheState(accessToken, expiresAt, now) # "valid"

\* Two callers raced, one cached a valid token, the other found it on the
\* double check.
C1_Witness ==
    \E c \in Callers :
        /\ raced[c] /\ dhit[c] /\ pc[c] = "unlock"
        /\ tokPosts[c] = 0 /\ cycleGood = 1

\* C2: a getToken whose fast-path check finds a non-empty token and
\* now < expiresAt takes the fast path, returns exactly the cached token
\* without error, issues no token request and leaves the cache as it was.
C2_FastPathReturnsCached ==
    /\ [](\A c \in Callers :
            /\ fast[c] = "valid" =>
                  /\ tokPosts[c] = 0
                  /\ pc[c] \in {"fastHit", "done", "editor"}
            /\ pc[c] = "fastHit" => fast[c] = "valid" /\ token[c] = accessToken)
    /\ [][\A c \in Callers :
            pc[c] = "fastHit" /\ pc'[c] # "fastHit" =>
                /\ gtResult'[c] = Returned(accessToken, NoError)
                /\ accessToken' = accessToken
                /\ expiresAt' = expiresAt
                /\ tokPosts' = tokPosts]_vars

\* A call that found the cache valid has returned the cached token.
C2_Witness ==
    \E c \in Callers :
        /\ pc[c] = "done" /\ fast[c] = "valid"
        /\ gtResult[c] = Returned(accessToken, NoError)
        /\ accessToken # "" /\ now < expiresAt

\* C3 as stated: a getToken call that finds a cached token with
\* now >= expiresAt issues exactly one token request, and when it succeeds
\* the cache holds, and the call returns, the newly issued token.
C3_ExpiredTriggersExactlyOne ==
    \A c \in Callers :
        fast[c] = "expired" /\ gtResult[c].set =>
            /\ tokPosts[c] = 1
            /\ pc[c] = "unlock" /\ gtResult[c].err = NoError =>
                  /\ accessToken = decodeToken(tokResp[c].body).AccessToken
                  /\ gtResult[c].token = accessToken

\* C3 amended: such a call issues exactly one token request unless the
\* re-check under the exclusive lock finds the cache valid again, and then
\* none; when its own request succeeds the cache holds, and the call
\* returns, the newly issued token.
C3_ExpiredTriggersOneUnlessRefreshed ==
    \A c \in Callers :
        fast[c] = "expired" /\ gtResult[c].set =>
            /\ tokPosts[c] = (IF dhit[c] THEN 0 ELSE 1)
            /\ pc[c] = "unlock" /\ ~dhit[c] /\ gtResult[c].err = NoError =>
                  /\ accessToken = decodeToken(tokResp[c].body).AccessToken
                  /\ gtResult[c].token = accessToken

\* A call that found the token expired has refreshed it and holds the new one.
C3_Witness ==
    \E c \in Callers :
        /\ fast[c] = "expired" /\ pc[c] = "unlock" /\ tokPosts[c] = 1
        /\ gtResult[c] = Returned(accessToken, NoError)
        /\ accessToken = decodeToken(tokResp[c].body).AccessToken
        /\ committed[1] = accessToken

\* A reply that makes the refresh fail: transport error, non-200 status,
\* undecodable body, empty or missing access_token.
ReplyFails(r) ==
    \/ r.neterr
    \/ r.status # 200
    \/ ~r.body.json
    \/ IsNil(r.body.access_token)
    \/ Deref(r.body.access_token) = ""

\* C4: when the refresh fails, getToken returns an error and accessToken and
\* expiresAt keep their values; the failing call leaves the last completely
\* stored pair in the cache.
C4_FailedRefreshKeepsCache ==
    /\ [][\A c \in Callers :
            pc[c] = "await" /\ pc'[c] # "await" /\ ReplyFails(tokResp'[c]) =>
                /\ pc'[c] = "unlock"
                /\ IsError(gtResult'[c].err)
                /\ gtResult'[c].token = ""
                /\ accessToken' = accessToken
                /\ expiresAt' = expiresAt]_vars
    /\ [](\A c \in Callers :
            pc[c] = "unlock" /\ ReplyFails(tokResp[c]) /\ tokPosts[c] = 1 =>
                /\ IsError(gtResult[c].err)
                /\ <<accessToken, expiresAt>> = committed)
    /\ []((\A c \in Callers : pc[c] # "storeExpiry") =>
              <<accessToken, expiresAt>> = committed)

\* A refresh failed while a token was cached, and the token is still there.
C4_Witness ==
    \E c \in Callers :
        /\ pc[c] = "unlock" /\ tokPosts[c] = 1 /\ ReplyFails(tokResp[c])
        /\ IsError(gtResult[c].err)
        /\ accessToken # "" /\ <<accessToken, expiresAt>> = committed

\* The validity window of a reply: expires_in seconds, one hour when it is
\* zero or absent.
WindowOf(r) ==
    IF IsNil(r.body.expires_in) \/ r.body.expires_in = Ptr(0)
    THEN 60 * 60
    ELSE Deref(r.body.expires_in)

\* C5: every successful refresh stores expiresAt = now + W - 5 minutes, W
\* being expires_in seconds, or one hour when expires_in is zero or absent.
C5_ExpiryIsWindowMinusBuffer ==
    [][\A c \in Callers :
         pc[c] = "storeExpiry" /\ pc'[c] # "storeExpiry" =>
             expiresAt' = now + WindowOf(tokResp[c]) - 5 * 60]_vars

\* A refresh whose reply had no expires_in stored an expiry 55 minutes away.
C5_Witness ==
    \E c \in Callers :
        /\ pc[c] = "unlock" /\ ~ReplyFails(tokResp[c])
        /\ IsNil(tokResp[c].body.expires_in)
        /\ expiresAt = now + 55 * 60

\* C6: the cache changes only in a step of the one caller that holds the
\* exclusive lock in the refresh path, and every caller in the fast-path
\* read section sees a pair that was stored together.
C6_PairReplacedAsUnit ==
    /\ [](\A c \in InRead : <<accessToken, expiresAt>> = committed)
    /\ [][<<accessToken, expiresAt>>' # <<accessToken, expiresAt>> =>
            \E c \in Callers :
                /\ writers = {c} /\ readers = {}
                /\ pc[c] \in {"await", "storeExpiry"}
                /\ pc'[c] \in {"storeExpiry", "unlock"}]_vars

\* The new token sits beside the old expiry while a caller waits to read.
C6_Witness ==
    \E c, d \in Callers :
        /\ pc[c] = "storeExpiry" /\ committed[1] # "" /\ accessToken # committed[1]
        /\ expiresAt = committed[2]
        /\ pc[d] = "getToken"

\* C7: at most one caller is in the exclusive refresh section, and while
\* one is there no caller is in the fast-path read section.
C7_ReadersWriterExclusion ==
    /\ Cardinality(InRefresh) <= 1
    /\ InRefresh # {} => InRead = {}

\* Two callers are in the fast-path read section together.
C7_Witness == Cardinality(InRead) >= 2

\* An address that fails a precondition of ValidateAddress: nil, no street
\* address, or a state whose length is not 2.
BadAddress(a) ==
    \/ IsNil(a)
    \/ Deref(a).StreetAddress = ""
    \/ Len(Deref(a).State) # 2

\* C8: ValidateAddress with a nil address, an empty StreetAddress or a State
\* whose length is not 2 returns an error and no results, and sends neither
\* a token request nor an address request.
C8_BadAddressNoNetwork ==
    \A c \in Callers :
        result[c].set /\ BadAddress(addr[c]) =>
            /\ pc[c] = "done"
            /\ IsError(result[c].err)
            /\ result[c].results = <<>>
            /\ tokPosts[c] = 0
            /\ addrSends[c] = 0
            /\ req[c] = NoRequest
            /\ ~gtResult[c].set

\* ValidateAddress returned for a three-letter state while another caller's
\* valid address is on its way.
C8_Witness ==
    \E c, d \in Callers :
        /\ pc[c] = "done" /\ result[c].set /\ ~IsNil(addr[c])
        /\ Len(Deref(addr[c]).State) = 3
        /\ IsError(result[c].err)
        /\ pc[d] = "awaitAddress" /\ addrSends[d] = 1

\* C9: a request goes to the address endpoint only after getToken returned a
\* token in the same ValidateAddress call, and its bearer credential is
\* exactly that token.
C9_BearerIsGetTokenResult ==
    /\ [](\A c \in Callers :
            pc[c] \in {"send", "awaitAddress"} =>
                /\ gtResult[c].set
                /\ gtResult[c].err = NoError
                /\ req[c].Authorization = <<"Bearer", gtResult[c].token>>)
    /\ [][\A c \in Callers :
            addrSends'[c] > addrSends[c] =>
                /\ gtResult[c].set /\ gtResult[c].err = NoError
                /\ req[c].Authorization = <<"Bearer", gtResult[c].token>>
                /\ addrSends[c] = 0]_vars

\* A request is on its way with the token getToken returned, while the
\* cache has moved on to another token.
C9_Witness ==
    \E c \in Callers :
        /\ pc[c] = "awaitAddress" /\ addrSends[c] = 1
        /\ req[c].Authorization = <<"Bearer", gtResult[c].token>>
        /\ gtResult[c].token # accessToken

RecognizedBodies(r) ==
    {r.JSON400, r.JSON401, r.JSON403, r.JSON404, r.JSON429, r.JSON503} \ {Nil}

\* A value of the public Error type.
IsPublicError(e) == DOMAIN e = {"Status", "Code", "Title", "Detail", "Source"}

\* The top-level code of an ErrorMessage, "" when it has none.
TopLevelCode(body) ==
    IF IsNil(body.Error) \/ IsNil(Deref(body.Error).Code) THEN ""
    ELSE Deref(Deref(body.Error).Code)

\* C11: when the address endpoint answers with a non-200 status,
\* ValidateAddress returns no results; it returns a public Error translated
\* from the structured error body when one was recognized for 400, 401, 403,
\* 404, 429 or 503, and otherwise a generic error carrying the raw status.
C11_Non200NeverResults ==
    \A c \in Callers :
        /\ result[c].set /\ addrSends[c] = 1
        /\ ~reply[c].neterr /\ reply[c].StatusCode # 200
        => /\ result[c].results = <<>>
           /\ IsError(result[c].err)
           /\ IF RecognizedBodies(reply[c]) # {}
              THEN /\ IsPublicError(result[c].err)
                   /\ \E b \in RecognizedBodies(reply[c]) :
                         result[c].err.Code = TopLevelCode(Deref(b))
              ELSE /\ ~IsPublicError(result[c].err)
                   /\ result[c].err.status = reply[c].StatusCode
                   /\ result[c].err.chain = <<"unexpected status code">>

\* ValidateAddress returned the public Error of a structured 429 body.
C11_Witness ==
    \E c \in Callers :
        /\ pc[c] = "done" /\ result[c].set /\ addrSends[c] = 1
        /\ reply[c].StatusCode = 429 /\ ~IsNil(reply[c].JSON429)
        /\ IsPublicError(result[c].err)
        /\ result[c].err.Title = "Invalid state"
        /\ result[c].results = <<>>

\* C12: no operation retries: a ValidateAddress call sends at most one
\* request to the address endpoint, and its getToken call at most one to the
\* token endpoint, whether the answer is a success, an error status or a
\* transport failure; a call that has returned sent exactly the requests
\* its outcome needs.
C12_NoRetries ==
    \A c \in Callers :
        /\ addrSends[c] <= 1
        /\ tokPosts[c] <= 1
        /\ result[c].set /\ (reply[c].neterr \/ reply[c].StatusCode # 0) => addrSends[c] = 1
        /\ gtResult[c].set /\ IsError(gtResult[c].err) => tokPosts[c] = 1

\* One call ended on a transport failure of the address endpoint after one
\* request, another on a failed token request after one POST.
C12_Witness ==
    \E c, d \in Callers :
        /\ pc[c] = "done" /\ result[c].set /\ reply[c].neterr /\ addrSends[c] = 1
        /\ pc[d] = "editor" /\ IsError(gtResult[d].err) /\ tokPosts[d] = 1
        /\ addrSends[d] = 0

\* The optional fields of an Address and of the request parameters.
OptionalFields == {"SecondaryAddress", "City", "ZIPCode", "Firm", "Urbanization"}

\* C13: for an address that passes the preconditions, each optional request
\* parameter is present exactly when the address field is non-empty, equals
\* the field when present, and is never an empty string; the request that
\* is sent carries these parameters.
C13_OptionalParamsIffNonEmpty ==
    \A c \in Callers :
        op[c] = "ValidateAddress" /\ ~BadAddress(addr[c]) =>
            /\ \A f \in OptionalFields :
                  /\ ~IsNil(params[c][f]) <=> Deref(addr[c])[f] # ""
                  /\ ~IsNil(params[c][f]) => Deref(params[c][f]) = Deref(addr[c])[f]
                  /\ params[c][f] # Ptr("")
            /\ params[c].StreetAddress = Deref(addr[c]).StreetAddress
            /\ pc[c] \in {"send", "awaitAddress"} => req[c].params = params[c]

\* A request is on its way for an address that has a ZIP code and a firm
\* and no other optional field.
C13_Witness ==
    \E c \in Callers :
        /\ pc[c] = "awaitAddress" /\ addrSends[c] = 1
        /\ Deref(addr[c]).City = "" /\ Deref(addr[c]).SecondaryAddress = ""
        /\ Deref(addr[c]).Urbanization = ""
        /\ req[c].params.ZIPCode = Ptr("90210") /\ req[c].params.Firm = Ptr("ACME")
        /\ IsNil(req[c].params.City) /\ IsNil(req[c].params.SecondaryAddress)
        /\ IsNil(req[c].params.Urbanization)

\* The fixed clarifying message.
ClarifyingMessage ==
    "USPS does not have enough data to validate the secondary address. Please double check what you entered."

\* The DPV confirmation indicator of a response body, "" when absent.
BodyDPV(body) ==
    IF IsNil(body.AdditionalInfo) \/ IsNil(Deref(body.AdditionalInfo).DPVConfirmation)
    THEN ""
    ELSE Deref(Deref(body.AdditionalInfo).DPVConfirmation)

\* The secondary address of the canonical address of a body, "" when absent.
BodySecondary(body) ==
    IF IsNil(body.Address) \/ IsNil(Deref(body.Address).SecondaryAddress)
    THEN ""
    ELSE Deref(Deref(body.Address).SecondaryAddress)

\* The provider's correction entries of a body as [Code, Text] with "" for
\* an absent field.
BodyCorrections(body) ==
    IF IsNil(body.Corrections) THEN {}
    ELSE {[Code |-> IF IsNil(e.Code) THEN "" ELSE Deref(e.Code),
           Text |-> IF IsNil(e.Text) THEN "" ELSE Deref(e.Text)] :
              e \in {Deref(body.Corrections)[i] : i \in 1..Len(Deref(body.Corrections))}}

\* The callers whose ValidateAddress returned a result for a 200 reply.
Translated ==
    {c \in Callers :
        /\ result[c].set /\ addrSends[c] = 1
        /\ ~reply[c].neterr /\ reply[c].StatusCode = 200 /\ ~IsNil(reply[c].JSON200)
        /\ Len(result[c].results) = 1}

\* The special case of the user-facing message: code "32", DPV
\* confirmation "S", and a secondary address in the canonical address.
SecondaryUnconfirmed(body, code) ==
    code = "32" /\ BodyDPV(body) = "S" /\ BodySecondary(body) # ""

\* C14: for a 200 response with a correction of code "32", DPV confirmation
\* "S" and a non-empty secondary address in the canonical address, the
\* returned result has that correction, and its user-facing message is the
\* fixed clarifying string and not the provider's text.
C14_Code32SGetsClarifyingMessage ==
    \A c \in Translated :
        LET body == Deref(reply[c].JSON200)
            corrections == result[c].results[1].Corrections
        IN \A e \in BodyCorrections(body) :
              SecondaryUnconfirmed(body, e.Code) =>
                  /\ \E i \in 1..Len(corrections) :
                        corrections[i].Code = "32" /\ corrections[i].Text = e.Text
                  /\ \A i \in 1..Len(corrections) :
                        corrections[i].Code = "32" =>
                            /\ corrections[i].UserMessage = ClarifyingMessage
                            /\ corrections[i].UserMessage # corrections[i].Text

\* A result for code "32", "S" and secondary address "APT 2" carries the
\* clarifying message beside the provider's text.
C14_Witness ==
    \E c \in Translated :
        /\ pc[c] = "done"
        /\ BodyDPV(Deref(reply[c].JSON200)) = "S"
        /\ BodySecondary(Deref(reply[c].JSON200)) = "APT 2"
        /\ Len(result[c].results[1].Corrections) = 2
        /\ result[c].results[1].Corrections[1] =
               [Code |-> "32", Text |-> "Default address", UserMessage |-> ClarifyingMessage]

\* C15: in every case other than code "32" with DPV confirmation "S" and a
\* secondary address present, the user-facing message of a returned
\* correction is the provider's text of that correction, verbatim.
C15_OtherCasesKeepProviderText ==
    \A c \in Translated :
        LET body == Deref(reply[c].JSON200)
            corrections == result[c].results[1].Corrections
        IN \A i \in 1..Len(corrections) :
              ~SecondaryUnconfirmed(body, corrections[i].Code) =>
                  /\ corrections[i].UserMessage = corrections[i].Text
                  /\ \E e \in BodyCorrections(body) :
                        e.Code = corrections[i].Code /\ e.Text = corrections[i].UserMessage

\* A result for code "32" and "D", with a secondary address present,
\* carries the provider's text as its message.
C15_Witness ==
    \E c \in Translated :
        /\ pc[c] = "done"
        /\ BodyDPV(Deref(reply[c].JSON200)) = "D"
        /\ BodySecondary(Deref(reply[c].JSON200)) = "APT 2"
        /\ result[c].results[1].Corrections =
               <<[Code |-> "32", Text |-> "Default address", UserMessage |-> "Default address"]>>

\* The first detailed sub-error of an ErrorMessage whose Error is set, Nil
\* when it has none.
FirstSubError(body) ==
    IF IsNil(Deref(body.Error).Errors) \/ Deref(Deref(body.Error).Errors) = <<>>
    THEN Nil
    ELSE Ptr(Deref(Deref(body.Error).Errors)[1])

\* The top-level message of an ErrorMessage whose Error is set, "" when absent.
TopLevelMessage(body) ==
    IF IsNil(Deref(body.Error).Message) THEN "" ELSE Deref(Deref(body.Error).Message)

\* A field of a public Error against the same field of the sub-error: the
\* sub-error's value when it has one, the fallback when it has none.
FromSubError(value, field, fallback) ==
    IF IsNil(field) THEN value = fallback ELSE value = Deref(field)

ProductionServerURL == "https://apis.usps.com/addresses/v3"
ProductionTokenURL == "https://apis.usps.com/oauth2/v3/token"

\* The caller's URL when it gave one, the production endpoint otherwise.
UrlOrDefault(url, production) == IF url # "" THEN url ELSE production

\* C17: NewClient returns an error and no client, and sends nothing, when
\* ClientID or ClientSecret is empty; when both are non-empty it returns a
\* client whose ServerURL and TokenURL are the caller's values where
\* non-empty and the production endpoints otherwise.
C17_NewClientValidatesAndDefaults ==
    client.set =>
        /\ \A c \in Callers : tokPosts[c] = 0 /\ addrSends[c] = 0
        /\ IF config.ClientID = "" \/ config.ClientSecret = ""
           THEN /\ IsError(client.err)
                /\ IsNil(client.client)
           ELSE /\ client.err = NoError
                /\ ~IsNil(client.client)
                /\ Deref(client.client).config.ClientID = config.ClientID
                /\ Deref(client.client).config.ClientSecret = config.ClientSecret
                /\ Deref(client.client).config.ServerURL =
                       UrlOrDefault(config.ServerURL, ProductionServerURL)
                /\ Deref(client.client).config.TokenURL =
                       UrlOrDefault(config.TokenURL, ProductionTokenURL)
                /\ Deref(client.client).tokenManager.tokenURL =
                       UrlOrDefault(config.TokenURL, ProductionTokenURL)

\* NewClient returned a client for a Config with credentials, its own token
\* URL and no server URL.
C17_Witness ==
    /\ client.set /\ ~IsNil(client.client)
    /\ config.ClientID = "id2" /\ config.ClientSecret = "secret"
    /\ config.ServerURL = "" /\ config.TokenURL = "http://localhost/token"
    /\ Deref(client.client).config.ServerURL = "https://apis.usps.com/addresses/v3"
    /\ Deref(client.client).tokenManager.tokenURL = "http://localhost/token"

\* C18: a caller that found the cache not valid on the fast path and finds
\* it valid on the re-check under the exclusive lock returns the cached token
\* without error, issues no token request and leaves the cache as it was.
C18_DoubleCheckHitReturnsCached ==
    /\ [][\A c \in Callers :
            /\ pc[c] = "refreshToken" /\ pc'[c] # "refreshToken"
            /\ CacheState(accessToken, expiresAt, now) = "valid"
            => /\ pc'[c] = "unlock"
               /\ gtResult'[c] = Returned(accessToken, NoError)
               /\ tokPosts' = tokPosts
               /\ accessToken' = accessToken
               /\ expiresAt' = expiresAt]_vars
    /\ [](\A c \in Callers :
            dhit[c] /\ fast[c] \in {"empty", "expired"} =>
                /\ pc[c] \in {"unlock", "done"}
                /\ tokPosts[c] = 0
                /\ gtResult[c].err = NoError
                /\ gtResult[c].token # ""
                /\ pc[c] = "unlock" =>
                      /\ gtResult[c].token = accessToken
                      /\ <<accessToken, expiresAt>> = committed
                      /\ tokResp[c] = NoReply)

\* A call that found the token expired returned, from the re-check, the
\* token another caller had cached meanwhile.
C18_Witness ==
    \E c \in Callers :
        /\ pc[c] = "done" /\ fast[c] = "expired" /\ dhit[c]
        /\ tokPosts[c] = 0
        /\ gtResult[c] = Returned(accessToken, NoError)
        /\ accessToken # "" /\ now < expiresAt

\* A successful reply whose expires_in is not zero and not more than the
\* five-minute buffer (negative values included).
ShortLived(r) ==
    /\ ~ReplyFails(r)
    /\ ~IsNil(r.body.expires_in)
    /\ Deref(r.body.expires_in) # 0
    /\ Deref(r.body.expires_in) <= 5 * 60

\* C19: a successful reply with a non-zero expires_in of at most five
\* minutes (or negative) stores an expiresAt that is not after the time of
\* storage; a stored pair whose expiresAt is not after now never passes the
\* validity check as long as it stays, and every getToken call that meets it,
\* on the fast path or on the re-check, goes on to issue its own token request.
C19_ShortLivedTokenNeverValid ==
    /\ [][\A c \in Callers :
            pc[c] = "storeExpiry" /\ pc'[c] # "storeExpiry" /\ ShortLived(tokResp[c]) =>
                /\ expiresAt' <= now
                /\ CacheState(accessToken', expiresAt', now') = "expired"]_vars
    /\ [][/\ CacheState(accessToken, expiresAt, now) = "expired"
          /\ <<accessToken, expiresAt>>' = <<accessToken, expiresAt>>
          => CacheState(accessToken', expiresAt', now') = "expired"]_vars
    /\ [][\A c \in Callers :
            /\ CacheState(accessToken, expiresAt, now) = "expired"
            /\ pc[c] = "getToken" /\ pc'[c] # "getToken"
            => pc'[c] = "fastMiss" /\ gtResult'[c] = gtResult[c]]_vars
    /\ [][\A c \in Callers :
            /\ CacheState(accessToken, expiresAt, now) = "expired"
            /\ pc[c] = "refreshToken" /\ pc'[c] # "refreshToken"
            => pc'[c] = "await" /\ tokPosts'[c] = tokPosts[c] + 1]_vars
    /\ [](\A c \in Callers :
            fast[c] = "expired" /\ ~dhit[c] /\ gtResult[c].set => tokPosts[c] = 1)

\* At time 0, where only a short-lived token can have expired, a call found
\* the token of an earlier call expired, issued its own request and stored
\* another short-lived token.
C19_Witness ==
    \E c, d \in Callers :
        /\ c # d /\ now = 0
        /\ pc[d] = "done" /\ tokPosts[d] = 1 /\ gtResult[d].err = NoError
        /\ pc[c] = "unlock" /\ fast[c] = "expired" /\ tokPosts[c] = 1
        /\ ShortLived(tokResp[c])
        /\ accessToken # "" /\ expiresAt <= now

\* C20: a failed refresh is not remembered: while a refresh has failed and
\* no token request has succeeded since, the cache is not valid, so every
\* getToken call misses the fast path and, once it holds the exclusive lock,
\* issues a fresh token request; the first request that succeeds stores its
\* token and makes getToken return it without error.
C20_FailedRefreshNotRemembered ==
    /\ [](failed => CacheState(accessToken, expiresAt, now) # "valid")
    /\ [][\A c \in Callers :
            failed /\ pc[c] = "getToken" /\ pc'[c] # "getToken" =>
                pc'[c] = "fastMiss"]_vars
    /\ [][\A c \in Callers :
            failed /\ pc[c] = "refreshToken" /\ pc'[c] # "refreshToken" =>
                pc'[c] = "await" /\ tokPosts'[c] = tokPosts[c] + 1]_vars
    /\ [][\A c \in Callers :
            pc[c] = "await" /\ pc'[c] # "await" /\ ~ReplyFails(tokResp'[c]) =>
                /\ pc'[c] = "storeExpiry"
                /\ accessToken' = Deref(tokResp'[c].body.access_token)
                /\ ~failed']_vars
    /\ [](\A c \in Callers :
            pc[c] = "unlock" /\ tokPosts[c] = 1 /\ ~ReplyFails(tokResp[c]) =>
                /\ gtResult[c] = Returned(Deref(tokResp[c].body.access_token), NoError)
                /\ gtResult[c].token # ""
                /\ accessToken = gtResult[c].token)

\* One call returned an error; the caller that was waiting for the lock
\* meanwhile issued its own request, which succeeded, and holds the token.
C20_Witness ==
    \E c, d \in Callers :
        /\ c # d
        /\ pc[d] = "done" /\ IsError(gtResult[d].err) /\ tokPosts[d] = 1
        /\ pc[c] = "unlock" /\ raced[c] /\ tokPosts[c] = 1
        /\ gtResult[c] = Returned(accessToken, NoError) /\ accessToken # ""
        /\ ~failed

\* The callers inside a getToken call.
InGetToken == {c \in Callers : pc[c] \notin {"idle", "done"}}

\* C21: every getToken call returns, given that its token request returns;
\* a caller that has returned holds the lock in neither mode, whichever way
\* it left (fast-path hit, re-check hit, failure, success); and every caller
\* waiting for the shared or the exclusive lock obtains it.
C21_GetTokenTerminatesAndUnlocks ==
    /\ [](\A c \in Callers :
            /\ c \notin InGetToken => c \notin readers /\ c \notin writers
            /\ c \in readers <=> c \in InRead
            /\ c \in writers <=> c \in InRefresh)
    /\ \A c \in Callers : (c \in InGetToken) ~> (pc[c] = "done" /\ gtResult[c].set)
    /\ \A c \in Callers : (pc[c] = "getToken") ~> (c \in readers)
    /\ \A c \in Callers : (pc[c] = "refreshToken") ~> (c \in writers)

\* A caller waits for the exclusive lock while another, whose request
\* failed, still holds it.
C21_Witness ==
    \E c, d \in Callers :
        /\ c # d
        /\ pc[c] = "refreshToken" /\ c \notin writers
        /\ pc[d] = "unlock" /\ d \in writers /\ IsError(gtResult[d].err)

\* C22: a getToken that returns without error returns a non-empty token, and
\* the cached accessToken is always the empty initial value or a non-empty
\* token of a successful token response: it starts empty and every change
\* stores the non-empty access_token of a reply that did not fail.
C22_TokenNonEmpty ==
    /\ [](\A c \in Callers :
            gtResult[c].set /\ gtResult[c].err = NoError => gtResult[c].token \in Tokens)
    /\ [](accessToken = "" \/ accessToken \in Tokens)
    /\ [][accessToken' # accessToken =>
            \E c \in Callers :
                /\ pc[c] = "await"
                /\ ~ReplyFails(tokResp'[c])
                /\ accessToken' = Deref(tokResp'[c].body.access_token)
                /\ accessToken' # ""]_vars

\* With token t2 in the cache after t1, one call has returned t2 without
\* error and another has returned an error and no token.
C22_Witness ==
    \E c, d \in Callers :
        /\ pc[c] = "done" /\ gtResult[c] = Returned("t2", NoError)
        /\ accessToken = "t2" /\ fast[c] = "expired"
        /\ pc[d] = "done" /\ IsError(gtResult[d].err) /\ gtResult[d].token = ""

\* C23: when the address endpoint answers 200 and no response body was
\* decoded, ValidateAddress returns the error "unexpected empty response"
\* and no results.
C23_Empty200IsError ==
    \A c \in Callers :
        /\ result[c].set /\ addrSends[c] = 1
        /\ ~reply[c].neterr /\ reply[c].StatusCode = 200 /\ IsNil(reply[c].JSON200)
        => /\ result[c].results = <<>>
           /\ IsError(result[c].err)
           /\ ~IsPublicError(result[c].err)
           /\ result[c].err.chain = <<"unexpected empty response">>
           /\ result[c].err.status = 0

\* ValidateAddress returned "unexpected empty response" for a 200 reply
\* without a body, to an address with every optional field filled in.
C23_Witness ==
    \E c \in Callers :
        /\ pc[c] = "done" /\ result[c].set /\ addrSends[c] = 1
        /\ reply[c].StatusCode = 200 /\ IsNil(reply[c].JSON200) /\ ~reply[c].neterr
        /\ result[c].err.chain = <<"unexpected empty response">>
        /\ result[c].results = <<>>
        /\ Deref(addr[c]).Urbanization # "" /\ Deref(addr[c]).Firm # ""

\* A provider entry as code and text, "" for an absent field.
EntryOf(e) ==
    [Code |-> IF IsNil(e.Code) THEN "" ELSE Deref(e.Code),
     Text |-> IF IsNil(e.Text) THEN "" ELSE Deref(e.Text)]

\* kept holds exactly the entries of provided (a pointer to a list, or nil)
\* with a non-empty code or text, in their order: the positions of such
\* entries, taken in increasing order, give the entries of kept.
KeptInOrder(kept, provided) ==
    LET source == IF IsNil(provided) THEN <<>> ELSE Deref(provided)
        wanted == {j \in 1..Len(source) :
                      EntryOf(source[j]).Code # "" \/ EntryOf(source[j]).Text # ""}
    IN /\ Len(kept) = Cardinality(wanted)
       /\ \E at \in [1..Len(kept) -> 1..Len(source)] :
             /\ {at[i] : i \in 1..Len(kept)} = wanted
             /\ \A i, k \in 1..Len(kept) : i < k => at[i] < at[k]
             /\ \A i \in 1..Len(kept) :
                   /\ kept[i].Code = EntryOf(source[at[i]]).Code
                   /\ kept[i].Text = EntryOf(source[at[i]]).Text

\* C24: the returned result keeps exactly the provider's correction entries,
\* and exactly its match entries, whose code or text is non-empty, in their
\* original order; entries with code and text both empty or absent are
\* dropped.
C24_EntriesFiltered ==
    \A c \in Translated :
        /\ KeptInOrder(result[c].results[1].Corrections, Deref(reply[c].JSON200).Corrections)
        /\ KeptInOrder(result[c].results[1].Matches, Deref(reply[c].JSON200).Matches)

\* A result kept, of three provider entries, the text-only one and the
\* code-only one in that order, as corrections and as matches.
C24_Witness ==
    \E c \in Translated :
        /\ pc[c] = "done"
        /\ Deref(reply[c].JSON200).Corrections =
               Ptr(<<[Code |-> Ptr(""), Text |-> Ptr("Text only")],
                     [Code |-> Nil, Text |-> Nil],
                     [Code |-> Ptr("31"), Text |-> Nil]>>)
        /\ result[c].results[1].Matches =
               <<[Code |-> "", Text |-> "Text only"], [Code |-> "31", Text |-> ""]>>
        /\ Len(result[c].results[1].Corrections) = 2
        /\ result[c].results[1].Corrections[2].Code = "31"

\* ------------------------------------------------------- specifications
\* The steps of getToken and refreshToken, whoever called getToken, with
\* the token endpoint answering from the set replies.
tokenManagerStep(replies) ==
    \/ \E c \in Callers : getToken(c)
    \/ \E c \in Callers : getTokenRUnlock(c)
    \/ \E c \in Callers : refreshToken(c)
    \/ \E c \in Callers : \E r \in replies : tokenReply(c, r)
    \/ \E c \in Callers : storeExpiry(c)
    \/ \E c \in Callers : refreshUnlock(c)

\* The token manager under goroutines that call getToken.
Next ==
    \/ \E c \in Callers : CallGetToken(c)
    \/ tokenManagerStep(TokenReplies)
    \/ Tick

Spec == Init /\ [][Next]_vars

\* The client under goroutines that call ValidateAddress.
ClientNext ==
    \/ \E c \in Callers : \E a \in AddressInputs : ValidateAddress(c, a)
    \/ tokenManagerStep(ClientTokenReplies)
    \/ \E c \in Callers : requestEditor(c)
    \/ \E c \in Callers : sendRequest(c)
    \/ \E c \in Callers : \E r \in AddressReplies : addressReply(c, r)
    \/ Tick

ClientSpec == Init /\ [][ClientNext]_vars

\* The construction of a client.
ConstructNext == CallNewClient

ConstructSpec == ConstructInit /\ [][ConstructNext]_vars

\* The token manager under goroutines that call getToken and are scheduled
\* fairly: a goroutine that can take a step of its call takes it, and a
\* token request that was sent returns.
LiveNext ==
    \/ \E c \in Callers : CallGetToken(c)
    \/ tokenManagerStep(LiveTokenReplies)
    \/ Tick

Fairness ==
    \A c \in Callers :
        /\ WF_vars(getToken(c))
        /\ WF_vars(getTokenRUnlock(c))
        /\ WF_vars(refreshToken(c))
        /\ WF_vars(\E r \in LiveTokenReplies : tokenReply(c, r))
        /\ WF_vars(storeExpiry(c))
        /\ WF_vars(refreshUnlock(c))

LiveSpec == Init /\ [][LiveNext]_vars /\ Fairness

\* The client under one goroutine that calls ValidateAddress again and again.
SerialNext ==
    \/ \E a \in SerialAddressInputs : ValidateAddress(1, a)
    \/ tokenManagerStep(SerialTokenReplies)
    \/ requestEditor(1)
    \/ sendRequest(1)
    \/ \E r \in SerialAddressReplies : addressReply(1, r)

SerialSpec == Init /\ [][SerialNext]_vars

\* One goroutine that calls ValidateAddress, with the endpoint answering 200
\* with every list of correction and match entries.
FilterNext ==
    \/ \E a \in AddressInputs : ValidateAddress(1, a)
    \/ tokenManagerStep(SerialTokenReplies)
    \/ requestEditor(1)
    \/ sendRequest(1)
    \/ \E r \in FilterReplies : addressReply(1, r)

FilterSpec == Init /\ [][FilterNext]_vars

====
